---- MODULE Spec2Model ----
(***************************************************************************)
(* State-machine model of the publication-cadence engine of the mesh       *)
(* motion sensor (src/sensor_motion.c): the presence detector with its     *)
(* blind-time timer, the cadence timer, the periodic tick evaluation, the  *)
(* event-driven publish path, and the configuration handlers.              *)
(*                                                                         *)
(* Representation.  The mesh core tick count and mesh_sensor_pub_time are  *)
(* uint32_t and wrap; they are held as pairs <<hi, lo>> of 16-bit halves   *)
(* (value = hi * 65536 + lo) so that arithmetic modulo 2^32 is exact.      *)
(* Durations and cadence fields (publish period, min_interval, deltas,     *)
(* fast cadence bounds) are uint32_t in the code as well; the model only   *)
(* feeds values below 2^31 and keeps them as naturals, converting with     *)
(* U32 wherever the code does 32-bit unsigned arithmetic on them.          *)
(* Time is in milliseconds.  A timer is "Stopped" or the number of ms      *)
(* left until its callback runs.                                           *)
(***************************************************************************)
EXTENDS Integers, FiniteSets, Sequences, TLC

VARIABLES
    phase,                               \* "boot" | "unprovisioned" | "running" | "fault"
    now,                                 \* wiced_bt_mesh_core_get_tick_count(), uint32
    presence_detected,                   \* wiced_bool_t presence_detected
    mesh_sensor_sent_value,              \* int32_t, value handed to the models library
    mesh_sensor_pub_value,               \* int32_t, value that has been published
    mesh_sensor_pub_time,                \* uint32_t, tick count of the last publish
    mesh_sensor_publish_period,          \* uint32_t, ms, 0 = no periodic publish
    mesh_sensor_fast_publish_period,     \* uint32_t, ms, 0 = fast cadence off
    mesh_sensor_sleep_max_time,          \* uint32_t, ms
    mesh_sensor_cadence_timer,           \* Stopped (-1) or ms left
    mesh_sensor_presence_detected_timer, \* Stopped (-1) or ms left
    e93196_blind,                        \* ms for which the sensor raises no interrupt yet
    cadence,                             \* p_sensor->cadence
    nvram,                               \* NVRAM record at MESH_MOTION_SENSOR_CADENCE_VSID_START
    lpn_state,                           \* app_state.lpn_state: "NOT_IDLE" | "IDLE"
    \* ---- observation (history) variables, not program state ----
    last_op,                             \* what the last operation was and did
    since_pub,                           \* ms since the last publish call (capped)
    pub_gap,                             \* ms between the last two publish calls
    rise,                                \* a false->true transition not yet published, configuration unchanged since
    period_fresh,                        \* a period was set; no tick, presence change or cadence change since
    since_edge,                          \* ms since the last sensor interrupt (capped)
    configured,                          \* the cadence and the period last delivered by configuration events
    lpn_sleep,                           \* the last LPN sleep request: duration offered, duration settled on
    advances,                            \* number of time steps taken
    restarts,                            \* number of restarts of the device
    changes                              \* number of accepted configuration events

vars == <<phase, now, presence_detected, mesh_sensor_sent_value, mesh_sensor_pub_value,
          mesh_sensor_pub_time, mesh_sensor_publish_period, mesh_sensor_fast_publish_period,
          mesh_sensor_sleep_max_time, mesh_sensor_cadence_timer,
          mesh_sensor_presence_detected_timer, e93196_blind, cadence, nvram, lpn_state,
          last_op, since_pub, pub_gap, rise, period_fresh, since_edge, configured,
          lpn_sleep, advances, restarts, changes>>

-----------------------------------------------------------------------------
(* Bounds of the model. *)

\* number of time steps in one behaviour
MaxAdvances == 2
\* number of accepted configuration events (period set, cadence changed) in one behaviour
MaxChanges == 2
\* number of restarts of the device in one behaviour
MaxRestarts == 1
\* number of time steps in one behaviour of SpecPeriodic (a publish, a tick
\* without one and the next publish are three time steps apart)
MaxPeriodicAdvances == 3
\* cap of the observation clocks since_pub.age and pub_gap.gap
HistCap == 20000

-----------------------------------------------------------------------------
(* 32-bit unsigned arithmetic on <<hi, lo>> pairs. *)

Half == 65536

U32(n) == <<(n \div Half) % Half, n % Half>>

Add32(a, b) ==
    LET lo == a[2] + b[2]
        hi == a[1] + b[1] + (lo \div Half)
    IN  <<hi % Half, lo % Half>>

Sub32(a, b) ==
    LET lo == a[2] - b[2]
        borrow == IF lo < 0 THEN 1 ELSE 0
        hi == a[1] - b[1] - borrow
    IN  <<(hi + Half) % Half, (lo + Half) % Half>>

Lt32(a, b) == a[1] < b[1] \/ (a[1] = b[1] /\ a[2] < b[2])
Le32(a, b) == a = b \/ Lt32(a, b)
Gt32(a, b) == Lt32(b, a)
Ge32(a, b) == Le32(b, a)

Min(a, b) == IF a < b THEN a ELSE b

-----------------------------------------------------------------------------
(* Program constants. *)

MESH_PRESENCE_DETECTED_BLIND_TIME == 7
MESH_SENSOR_SERVER_ELEMENT_INDEX == 0
MESH_MOTION_SENSOR_INDEX == 0

\* a timer that is not running (wiced_stop_timer, or a one-shot timer that has fired)
Stopped == -1
\* the NVRAM holds <<>> (no record) or <<c>> (the cadence c)
NoRecord == <<>>

\* initializer of mesh_element1_sensors[0].cadence
DefaultCadence ==
    [ fast_cadence_period_divisor |-> 1,
      trigger_type_percentage     |-> FALSE,
      trigger_delta_down          |-> 0,
      trigger_delta_up            |-> 0,
      min_interval                |-> 1024,
      fast_cadence_low            |-> 0,
      fast_cadence_high           |-> 0 ]

-----------------------------------------------------------------------------
(* Inputs. *)

\* tick count at which the application is initialised: right after power-up,
\* or late (provisioning completes at any uptime; the counter is free running
\* and wraps after 2^32 ms)
InitTicks == { U32(0), <<Half - 1, Half - 3>> }

PeriodInputs == { 0, 100, 320000 }

\* <<element_idx, company_id, model_id>> of a period-set notification: the
\* sensor server model of the sensor element, and one with each field off
AddressInputs ==
    { <<0, "BT_SIG", "SENSOR_SRV">>, <<1, "BT_SIG", "SENSOR_SRV">>,
      <<0, "CYPRESS", "SENSOR_SRV">>, <<0, "BT_SIG", "DEVICE">> }

DivisorInputs     == { 0, 1, 32 }
MinIntervalInputs == { 0, 1024 }
DeltaInputs       == { 0, 1 }
FastBoundInputs   == { 0, 1, 2 }

\* Cadences a Sensor Cadence Set can deliver.  Each family varies the fields one
\* part of the code reads together and leaves the others at the values of
\* DefaultCadence; a specification draws its cadences from one family.
\*   GateCadences:  the divisor and min_interval (timer computation, the
\*                  min_interval gate, the event path's "not configured" test)
\*   RangeCadences: the fast cadence range with fast cadence on, with and
\*                  without a native trigger before it (range test of the tick)
\*   TimerCadences: the divisor, min_interval and a trigger delta (every branch
\*                  of mesh_sensor_server_restart_timer)
\*   TriggerCadences: the trigger type and the two deltas (trigger tests of the
\*                  tick and of the event path)
GateCadences ==
    { [ DefaultCadence EXCEPT !.fast_cadence_period_divisor = d, !.min_interval = m ] :
        d \in DivisorInputs, m \in MinIntervalInputs }

RangeCadences ==
    { [ DefaultCadence EXCEPT !.fast_cadence_period_divisor = 32,
                              !.trigger_delta_up = u,
                              !.fast_cadence_low = l, !.fast_cadence_high = h ] :
        u \in DeltaInputs, l \in FastBoundInputs, h \in FastBoundInputs }

\* max_sleep_duration the mesh core offers to mesh_sensor_motion_lpn_sleep
SleepInputs == { 5000, 30000, 100000 }

SleepCadences ==
    { [ DefaultCadence EXCEPT !.fast_cadence_period_divisor = d ] : d \in { 1, 32 } }

RestartCadences ==
    { [ DefaultCadence EXCEPT !.fast_cadence_period_divisor = 32, !.min_interval = m ] :
        m \in MinIntervalInputs }

TimerCadences ==
    { [ DefaultCadence EXCEPT !.fast_cadence_period_divisor = d,
                              !.min_interval = m,
                              !.trigger_delta_up = u ] :
        d \in DivisorInputs, m \in MinIntervalInputs, u \in DeltaInputs }

\* a divisor below and one above the smaller publish period of PeriodInputs
LargeDivisorInputs == { 32, 128 }

\* the divisor, up to values above the publish period, and min_interval
DivisorCadences ==
    { [ DefaultCadence EXCEPT !.fast_cadence_period_divisor = d, !.min_interval = m ] :
        d \in LargeDivisorInputs, m \in MinIntervalInputs }

\* fast cadence on, with a min_interval between the fast period and the
\* publish period 100, with and without a trigger delta
PeriodicCadences ==
    { [ DefaultCadence EXCEPT !.fast_cadence_period_divisor = 32,
                              !.min_interval = m,
                              !.trigger_delta_up = u ] :
        m \in { 0, 64 }, u \in DeltaInputs }

\* Periods and cadences of SpecLive, where time runs on without end: the
\* timer durations are 2^30 and 3 * 2^29 ms, so that the 32-bit tick count
\* comes back to the same values after a few ticks.
\*   divisor 1, no trigger, min_interval above the period: timer = period
\*   divisor 2, delta up, min_interval above the period:   timer = min_interval
\*   divisor 2, percentage trigger with delta down, min_interval 0: timer = period / 2
LivePeriodInputs == { 0, 1073741824 }

LiveCadences ==
    { [ DefaultCadence EXCEPT !.min_interval = 1610612736 ],
      [ DefaultCadence EXCEPT !.fast_cadence_period_divisor = 2,
                              !.min_interval = 1610612736,
                              !.trigger_delta_up = 1 ],
      [ DefaultCadence EXCEPT !.fast_cadence_period_divisor = 2,
                              !.min_interval = 0,
                              !.trigger_type_percentage = TRUE,
                              !.trigger_delta_down = 1 ] }

\* the trigger fields (type and both deltas), with fast cadence on so that ticks
\* run before the publish period expires, and min_interval off
TriggerCadences ==
    { [ DefaultCadence EXCEPT !.fast_cadence_period_divisor = 32,
                              !.min_interval = 0,
                              !.trigger_type_percentage = t,
                              !.trigger_delta_up = u,
                              !.trigger_delta_down = d ] :
        t \in BOOLEAN, u \in DeltaInputs, d \in DeltaInputs }

-----------------------------------------------------------------------------
(* The globals as one record, so that the C functions can be composed. *)

Globals ==
    [ presence_detected                   |-> presence_detected,
      mesh_sensor_sent_value              |-> mesh_sensor_sent_value,
      mesh_sensor_pub_value               |-> mesh_sensor_pub_value,
      mesh_sensor_pub_time                |-> mesh_sensor_pub_time,
      mesh_sensor_publish_period          |-> mesh_sensor_publish_period,
      mesh_sensor_fast_publish_period     |-> mesh_sensor_fast_publish_period,
      mesh_sensor_sleep_max_time          |-> mesh_sensor_sleep_max_time,
      mesh_sensor_cadence_timer           |-> mesh_sensor_cadence_timer,
      mesh_sensor_presence_detected_timer |-> mesh_sensor_presence_detected_timer,
      cadence                             |-> cadence,
      nvram                               |-> nvram,
      published                           |-> 0,
      restarted                           |-> 0 ]

Commit(g) ==
    /\ presence_detected' = g.presence_detected
    /\ mesh_sensor_sent_value' = g.mesh_sensor_sent_value
    /\ mesh_sensor_pub_value' = g.mesh_sensor_pub_value
    /\ mesh_sensor_pub_time' = g.mesh_sensor_pub_time
    /\ mesh_sensor_publish_period' = g.mesh_sensor_publish_period
    /\ mesh_sensor_fast_publish_period' = g.mesh_sensor_fast_publish_period
    /\ mesh_sensor_sleep_max_time' = g.mesh_sensor_sleep_max_time
    /\ mesh_sensor_cadence_timer' = g.mesh_sensor_cadence_timer
    /\ mesh_sensor_presence_detected_timer' = g.mesh_sensor_presence_detected_timer
    /\ cadence' = g.cadence
    /\ nvram' = g.nvram

-----------------------------------------------------------------------------
(* Functions of the program. *)

\* int32_t mesh_sensor_get_current_value(void)
mesh_sensor_get_current_value(g) == IF g.presence_detected THEN 1 ELSE 0

\* void mesh_sensor_publish(void)
mesh_sensor_publish(g) ==
    [ g EXCEPT !.mesh_sensor_sent_value = mesh_sensor_get_current_value(g),
               !.mesh_sensor_pub_value  = mesh_sensor_get_current_value(g),
               !.mesh_sensor_pub_time   = now,
               !.published              = @ + 1 ]

\* mesh_sensor_server_restart_timer that arms the timer for the publish period
\* whatever the divisor is (the divisor sets the fast period only)
mesh_sensor_server_restart_timer_basePeriod(g) ==
    LET c        == g.cadence
        period   == g.mesh_sensor_publish_period
        stopped  == [ g EXCEPT !.mesh_sensor_cadence_timer = Stopped, !.restarted = @ + 1 ]
        fastOn   == c.fast_cadence_period_divisor > 1
        fast     == IF fastOn THEN period \div c.fast_cadence_period_divisor ELSE 0
        timeout2 == IF /\ c.min_interval # 0
                       /\ c.min_interval > period
                       /\ (c.trigger_delta_up # 0 \/ c.trigger_delta_down # 0)
                    THEN c.min_interval
                    ELSE period
    IN  IF period = 0
        THEN stopped
        ELSE [ stopped EXCEPT !.mesh_sensor_fast_publish_period = fast,
                              !.mesh_sensor_sleep_max_time      = timeout2,
                              !.mesh_sensor_cadence_timer       = timeout2 ]

\* mesh_sensor_server_restart_timer that takes a divisor of 1 for fast cadence too
mesh_sensor_server_restart_timer_fastFromOne(g) ==
    LET c        == g.cadence
        period   == g.mesh_sensor_publish_period
        stopped  == [ g EXCEPT !.mesh_sensor_cadence_timer = Stopped, !.restarted = @ + 1 ]
        fastOn   == c.fast_cadence_period_divisor >= 1
        timeout1 == IF fastOn THEN period \div c.fast_cadence_period_divisor ELSE period
        fast     == IF fastOn THEN timeout1 ELSE 0
        timeout2 == IF /\ c.min_interval # 0
                       /\ c.min_interval > timeout1
                       /\ (c.trigger_delta_up # 0 \/ c.trigger_delta_down # 0)
                    THEN c.min_interval
                    ELSE timeout1
    IN  IF period = 0
        THEN stopped
        ELSE [ stopped EXCEPT !.mesh_sensor_fast_publish_period = fast,
                              !.mesh_sensor_sleep_max_time      = timeout2,
                              !.mesh_sensor_cadence_timer       = timeout2 ]

\* mesh_sensor_server_restart_timer that returns for a period of 0 before it
\* stops the timer
mesh_sensor_server_restart_timer_noStop(g) ==
    LET c        == g.cadence
        period   == g.mesh_sensor_publish_period
        fastOn   == c.fast_cadence_period_divisor > 1
        timeout1 == IF fastOn THEN period \div c.fast_cadence_period_divisor ELSE period
        fast     == IF fastOn THEN timeout1 ELSE 0
        timeout2 == IF /\ c.min_interval # 0
                       /\ c.min_interval > timeout1
                       /\ (c.trigger_delta_up # 0 \/ c.trigger_delta_down # 0)
                    THEN c.min_interval
                    ELSE timeout1
    IN  IF period = 0
        THEN [ g EXCEPT !.restarted = @ + 1 ]
        ELSE [ g EXCEPT !.restarted = @ + 1,
                        !.mesh_sensor_fast_publish_period = fast,
                        !.mesh_sensor_sleep_max_time      = timeout2,
                        !.mesh_sensor_cadence_timer       = timeout2 ]

\* void mesh_sensor_server_restart_timer(p_sensor)
mesh_sensor_server_restart_timer(g) ==
    LET c        == g.cadence
        period   == g.mesh_sensor_publish_period
        stopped  == [ g EXCEPT !.mesh_sensor_cadence_timer = Stopped, !.restarted = @ + 1 ]
        fastOn   == c.fast_cadence_period_divisor > 1
        timeout1 == IF fastOn THEN period \div c.fast_cadence_period_divisor ELSE period
        fast     == IF fastOn THEN timeout1 ELSE 0
        timeout2 == IF /\ c.min_interval # 0
                       /\ c.min_interval > timeout1
                       /\ (c.trigger_delta_up # 0 \/ c.trigger_delta_down # 0)
                    THEN c.min_interval
                    ELSE timeout1
    IN  IF period = 0
        THEN stopped
        ELSE [ stopped EXCEPT !.mesh_sensor_fast_publish_period = fast,
                              !.mesh_sensor_sleep_max_time      = timeout2,
                              !.mesh_sensor_cadence_timer       = timeout2 ]

-----------------------------------------------------------------------------
(* Tick evaluation: the conditions of mesh_sensor_publish_timer_callback. *)

\* current_time - mesh_sensor_pub_time, in uint32_t
Elapsed(g) == Sub32(now, g.mesh_sensor_pub_time)

\* (min_interval != 0) && ((current_time - mesh_sensor_pub_time) < min_interval)
TickTooSoon(g) ==
    /\ g.cadence.min_interval # 0
    /\ Lt32(Elapsed(g), U32(g.cadence.min_interval))

\* PeriodExpired with a strict comparison
PeriodExpired_strict(g) ==
    /\ g.mesh_sensor_publish_period # 0
    /\ Gt32(Elapsed(g), U32(g.mesh_sensor_publish_period))

\* (mesh_sensor_publish_period != 0) && (current_time - mesh_sensor_pub_time >= mesh_sensor_publish_period)
PeriodExpired(g) ==
    /\ g.mesh_sensor_publish_period # 0
    /\ Ge32(Elapsed(g), U32(g.mesh_sensor_publish_period))

\* (trigger_delta_up != 0) || (trigger_delta_down != 0)
TriggerConfigured(c) == c.trigger_delta_up # 0 \/ c.trigger_delta_down # 0

\* native trigger test of the tick; the int32_t values are converted to uint32_t
\* by the usual arithmetic conversions, so pub_value - trigger_delta_down wraps
NativeTrigger(g, cur) ==
    LET c   == g.cadence
        pub == U32(g.mesh_sensor_pub_value)
    IN  \/ /\ c.trigger_delta_up # 0
           /\ Ge32(U32(cur), Add32(pub, U32(c.trigger_delta_up)))
        \/ /\ c.trigger_delta_down # 0
           /\ Le32(U32(cur), Sub32(pub, U32(c.trigger_delta_down)))

\* percentage trigger test of the tick: the set of results the build can give,
\* "yes" / "no" for pub_needed, "fault" for a trapped division.  Dividing by
\* current_value = 0 is undefined: any quotient, or a fault.
PercentTrigger(g, cur) ==
    LET c   == g.cadence
        pub == g.mesh_sensor_pub_value
    IN  IF c.trigger_delta_up # 0 /\ cur > pub
        THEN IF cur = 0 THEN { "yes", "no", "fault" }
             ELSE IF ((cur - pub) * 10000) \div cur > c.trigger_delta_up
                  THEN { "yes" } ELSE { "no" }
        ELSE IF c.trigger_delta_down # 0 /\ cur < pub
        THEN IF cur = 0 THEN { "yes", "no", "fault" }
             ELSE IF ((pub - cur) * 10000) \div cur > c.trigger_delta_down
                  THEN { "yes" } ELSE { "no" }
        ELSE { "no" }

\* results of the trigger step (lines 595-631), given that the period did not decide
TriggerStep(g, cur) ==
    IF ~TriggerConfigured(g.cadence) THEN { "no" }
    ELSE IF ~g.cadence.trigger_type_percentage
         THEN IF NativeTrigger(g, cur) THEN { "yes" } ELSE { "no" }
         ELSE PercentTrigger(g, cur)

\* FastCadenceMatch with an inclusive lower bound in the normal range
FastCadenceMatch_lowInclusive(c, cur) ==
    IF c.fast_cadence_high > c.fast_cadence_low
    THEN cur >= c.fast_cadence_low /\ cur <= c.fast_cadence_high
    ELSE IF c.fast_cadence_high < c.fast_cadence_low
    THEN cur >= c.fast_cadence_low \/ cur < c.fast_cadence_high
    ELSE cur = c.fast_cadence_low

\* FastCadenceMatch with an exclusive bound at fast_cadence_low in the inverted range
FastCadenceMatch_invertedExclusive(c, cur) ==
    IF c.fast_cadence_high > c.fast_cadence_low
    THEN cur > c.fast_cadence_low /\ cur <= c.fast_cadence_high
    ELSE IF c.fast_cadence_high < c.fast_cadence_low
    THEN cur > c.fast_cadence_low \/ cur < c.fast_cadence_high
    ELSE cur = c.fast_cadence_low

\* FastCadenceMatch that matches every value from fast_cadence_low up when the bounds are equal
FastCadenceMatch_equalOrAbove(c, cur) ==
    IF c.fast_cadence_high > c.fast_cadence_low
    THEN cur > c.fast_cadence_low /\ cur <= c.fast_cadence_high
    ELSE IF c.fast_cadence_high < c.fast_cadence_low
    THEN cur >= c.fast_cadence_low \/ cur < c.fast_cadence_high
    ELSE cur >= c.fast_cadence_low

\* the three cases of the fast cadence range test (lines 639-665)
FastCadenceMatch(c, cur) ==
    IF c.fast_cadence_high > c.fast_cadence_low
    THEN cur > c.fast_cadence_low /\ cur <= c.fast_cadence_high
    ELSE IF c.fast_cadence_high < c.fast_cadence_low
    THEN cur >= c.fast_cadence_low \/ cur < c.fast_cadence_high
    ELSE cur = c.fast_cadence_low

\* (mesh_sensor_fast_publish_period != 0) && elapsed >= fast period
FastPeriodExpired(g) ==
    /\ g.mesh_sensor_fast_publish_period # 0
    /\ Ge32(Elapsed(g), U32(g.mesh_sensor_fast_publish_period))

\* TickOutcomes with the period test in front of the min_interval test
TickOutcomes_periodFirst(g) ==
    LET cur == mesh_sensor_get_current_value(g)
    IN  IF PeriodExpired(g) THEN { "period" }
        ELSE IF TickTooSoon(g) THEN { "too_soon" }
        ELSE { IF t = "yes" THEN "trigger"
               ELSE IF t = "fault" THEN "fault"
               ELSE IF FastPeriodExpired(g) /\ FastCadenceMatch(g.cadence, cur)
                    THEN "range" ELSE "none" : t \in TriggerStep(g, cur) }

\* TickOutcomes as a chain in which a configured trigger ends the evaluation:
\* the fast cadence test runs only when no trigger is configured
TickOutcomes_shortCircuit(g) ==
    LET cur == mesh_sensor_get_current_value(g)
    IN  IF TickTooSoon(g) THEN { "too_soon" }
        ELSE IF PeriodExpired(g) THEN { "period" }
        ELSE IF TriggerConfigured(g.cadence)
        THEN { IF t = "yes" THEN "trigger"
               ELSE IF t = "fault" THEN "fault"
               ELSE "none" : t \in TriggerStep(g, cur) }
        ELSE IF FastPeriodExpired(g) /\ FastCadenceMatch(g.cadence, cur)
        THEN { "range" } ELSE { "none" }

\* results of one tick evaluation: why pub_needed is set ("period", "trigger",
\* "range") or not set ("too_soon", "none"), or "fault"
TickOutcomes(g) ==
    LET cur == mesh_sensor_get_current_value(g)
    IN  IF TickTooSoon(g) THEN { "too_soon" }
        ELSE IF PeriodExpired(g) THEN { "period" }
        ELSE { IF t = "yes" THEN "trigger"
               ELSE IF t = "fault" THEN "fault"
               ELSE IF FastPeriodExpired(g) /\ FastCadenceMatch(g.cadence, cur)
                    THEN "range" ELSE "none" : t \in TriggerStep(g, cur) }

\* pub_needed after a tick evaluation with result r
PubNeeded(r) == r \in { "period", "trigger", "range" }

\* mesh_sensor_value_changed without the return for a nonzero publish period
mesh_sensor_value_changed_notDeferred(g) ==
    LET c == g.cadence
    IN  IF /\ c.fast_cadence_period_divisor = 1
           /\ c.trigger_delta_up = 0
           /\ c.trigger_delta_down = 0
        THEN mesh_sensor_publish(g)
        ELSE g

\* mesh_sensor_value_changed with the min_interval test moved in front of the
\* "cadence not configured" branch
mesh_sensor_value_changed_gated(g) ==
    LET c == g.cadence
    IN  IF g.mesh_sensor_publish_period # 0 THEN g
        ELSE IF Gt32(Add32(g.mesh_sensor_pub_time, U32(c.min_interval)), now) THEN g
        ELSE mesh_sensor_publish(g)

\* mesh_sensor_value_changed whose trigger branch publishes without restarting
\* the timer
mesh_sensor_value_changed_noRestart(g) ==
    LET c   == g.cadence
        cur == U32(mesh_sensor_get_current_value(g))
        pub == U32(g.mesh_sensor_pub_value)
    IN  IF g.mesh_sensor_publish_period # 0 THEN g
        ELSE IF /\ c.fast_cadence_period_divisor = 1
                /\ c.trigger_delta_up = 0
                /\ c.trigger_delta_down = 0
        THEN mesh_sensor_publish(g)
        ELSE IF Gt32(Add32(g.mesh_sensor_pub_time, U32(c.min_interval)), now) THEN g
        ELSE IF \/ /\ c.trigger_delta_down # 0
                   /\ Lt32(cur, Sub32(pub, U32(c.trigger_delta_down)))
                \/ /\ c.trigger_delta_up # 0
                   /\ Gt32(cur, Sub32(pub, U32(c.trigger_delta_up)))
        THEN mesh_sensor_publish(g)
        ELSE g

\* mesh_sensor_value_changed whose "cadence not configured" test leaves the
\* divisor out: no trigger delta means publish on every change
mesh_sensor_value_changed_ignoresDivisor(g) ==
    LET c   == g.cadence
        cur == U32(mesh_sensor_get_current_value(g))
        pub == U32(g.mesh_sensor_pub_value)
    IN  IF g.mesh_sensor_publish_period # 0 THEN g
        ELSE IF /\ c.trigger_delta_up = 0
                /\ c.trigger_delta_down = 0
        THEN mesh_sensor_publish(g)
        ELSE IF Gt32(Add32(g.mesh_sensor_pub_time, U32(c.min_interval)), now) THEN g
        ELSE IF \/ /\ c.trigger_delta_down # 0
                   /\ Lt32(cur, Sub32(pub, U32(c.trigger_delta_down)))
                \/ /\ c.trigger_delta_up # 0
                   /\ Gt32(cur, Sub32(pub, U32(c.trigger_delta_up)))
        THEN mesh_sensor_server_restart_timer(mesh_sensor_publish(g))
        ELSE g

\* void mesh_sensor_value_changed(p_sensor)
mesh_sensor_value_changed(g) ==
    LET c   == g.cadence
        cur == U32(mesh_sensor_get_current_value(g))
        pub == U32(g.mesh_sensor_pub_value)
    IN  IF g.mesh_sensor_publish_period # 0 THEN g
        ELSE IF /\ c.fast_cadence_period_divisor = 1
                /\ c.trigger_delta_up = 0
                /\ c.trigger_delta_down = 0
        THEN mesh_sensor_publish(g)
        ELSE IF Gt32(Add32(g.mesh_sensor_pub_time, U32(c.min_interval)), now) THEN g
        ELSE IF \/ /\ c.trigger_delta_down # 0
                   /\ Lt32(cur, Sub32(pub, U32(c.trigger_delta_down)))
                \/ /\ c.trigger_delta_up # 0
                   /\ Gt32(cur, Sub32(pub, U32(c.trigger_delta_up)))
        THEN mesh_sensor_server_restart_timer(mesh_sensor_publish(g))
        ELSE g

-----------------------------------------------------------------------------
(* Observation of an operation. *)

NoGap == [ gap |-> HistCap, I |-> -1 ]

\* op: name of the operation, g: the globals it leaves (g.published, g.restarted:
\* the calls of mesh_sensor_publish and of mesh_sensor_server_restart_timer it made),
\* why: the result of the tick evaluation ("" for other operations);
\* since_pub.P: the publish period the last publish was made under, -1 once a
\* period or a cadence has been set since;
\* last_op.first: the operation is the first tick after a period was set;
\* last_op.steady: the operation is a tick that found the value it had published
Observe(op, g, why) ==
    LET pubd == g.published > 0
        I    == g.cadence.min_interval
    IN  /\ last_op' = [ op |-> op, published |-> g.published, restarted |-> g.restarted,
                        why |-> why,
                        first |-> (op = "tick" /\ period_fresh),
                        steady |-> ( /\ op = "tick"
                                     /\ mesh_sensor_pub_value =
                                            (IF presence_detected THEN 1 ELSE 0) ) ]
        /\ since_pub' = IF pubd THEN [ n |-> Min(since_pub.n + 1, 2), age |-> 0, I |-> I,
                                        P |-> g.mesh_sensor_publish_period ]
                        ELSE [ since_pub EXCEPT !.I = IF @ = I THEN @ ELSE -1,
                                                !.P = IF op \in { "period_set", "cadence_changed" }
                                                      THEN -1 ELSE @ ]
        /\ pub_gap' = IF ~pubd THEN pub_gap
                      ELSE IF since_pub.n = 0 THEN NoGap
                      ELSE [ gap |-> since_pub.age,
                             I   |-> IF since_pub.I = cadence.min_interval /\ since_pub.I = I
                                     THEN I ELSE -1 ]

-----------------------------------------------------------------------------
(* Operations. *)

Running == phase = "running"

\* void mesh_app_init(wiced_bool_t is_provisioned).  The provisioned
\* initialisation reads the cadence from the NVRAM and ignores the result of
\* the read: with no record, or with a read that fails, the cadence stays as
\* it is in memory.
mesh_app_init(is_provisioned) ==
    /\ phase \in (IF is_provisioned THEN { "boot", "unprovisioned" } ELSE { "boot" })
    /\ phase' = IF is_provisioned THEN "running" ELSE "unprovisioned"
    /\ \E read \in IF ~is_provisioned THEN { "" }
                   ELSE IF nvram = NoRecord THEN { "no_record" }
                   ELSE { "restored", "read_failed" } :
         LET g == IF read = "restored"
                  THEN [ Globals EXCEPT !.cadence = nvram[1] ]
                  ELSE Globals
         IN  Commit(g) /\ Observe("init", g, read)
    /\ UNCHANGED <<now, e93196_blind, lpn_state, rise, period_fresh, since_edge, configured,
                   lpn_sleep, advances, restarts, changes>>

\* mesh_app_notify_period_set without the test of company_id
mesh_app_notify_period_set_anyCompany(element_idx, company_id, model_id, period, ret) ==
    /\ Running
    /\ IF \/ element_idx # MESH_MOTION_SENSOR_INDEX
          \/ model_id # "SENSOR_SRV"
       THEN /\ ret = FALSE
            /\ UNCHANGED vars
       ELSE /\ ret = TRUE
            /\ changes < MaxChanges
            /\ LET g1 == [ Globals EXCEPT !.mesh_sensor_publish_period = period ]
                   g2 == mesh_sensor_server_restart_timer(g1)
                   g3 == [ g2 EXCEPT !.mesh_sensor_pub_time = U32(0) ]
               IN  Commit(g3) /\ Observe("period_set", g3, "")
            /\ rise' = FALSE
            /\ period_fresh' = TRUE
            /\ changes' = changes + 1
            /\ configured' = [ configured EXCEPT !.period = period ]
            /\ UNCHANGED <<phase, now, e93196_blind, lpn_state, since_edge, lpn_sleep,
                           advances, restarts>>

\* wiced_bool_t mesh_app_notify_period_set(element_idx, company_id, model_id, period);
\* ret is the value the call returns.  A rejected call changes nothing.
mesh_app_notify_period_set(element_idx, company_id, model_id, period, ret) ==
    /\ Running
    /\ IF \/ element_idx # MESH_MOTION_SENSOR_INDEX
          \/ company_id # "BT_SIG"
          \/ model_id # "SENSOR_SRV"
       THEN /\ ret = FALSE
            /\ UNCHANGED vars
       ELSE /\ ret = TRUE
            /\ changes < MaxChanges
            /\ LET g1 == [ Globals EXCEPT !.mesh_sensor_publish_period = period ]
                   g2 == mesh_sensor_server_restart_timer(g1)
                   g3 == [ g2 EXCEPT !.mesh_sensor_pub_time = U32(0) ]
               IN  Commit(g3) /\ Observe("period_set", g3, "")
            /\ rise' = FALSE
            /\ period_fresh' = TRUE
            /\ changes' = changes + 1
            /\ configured' = [ configured EXCEPT !.period = period ]
            /\ UNCHANGED <<phase, now, e93196_blind, lpn_state, since_edge, lpn_sleep,
                           advances, restarts>>

\* mesh_sensor_server_process_cadence_changed without the restart of the timer
mesh_sensor_server_process_cadence_changed_noRestart(c) ==
    /\ Running
    /\ changes < MaxChanges
    /\ LET g1 == [ Globals EXCEPT !.cadence = c ]
           g2 == [ g1 EXCEPT !.nvram = <<g1.cadence>> ]
           g4 == [ g2 EXCEPT !.mesh_sensor_pub_time = U32(0) ]
       IN  Commit(g4) /\ Observe("cadence_changed", g4, "")
    /\ rise' = FALSE
    /\ period_fresh' = FALSE
    /\ changes' = changes + 1
    /\ configured' = [ configured EXCEPT !.cadence = <<c>> ]
    /\ UNCHANGED <<phase, now, e93196_blind, lpn_state, since_edge, lpn_sleep, advances, restarts>>

\* void mesh_sensor_server_process_cadence_changed(element_idx, p_data), reached
\* through mesh_sensor_server_config_change_handler; the models library has
\* stored the received cadence c in p_sensor->cadence before it calls
mesh_sensor_server_process_cadence_changed(c) ==
    /\ Running
    /\ changes < MaxChanges
    /\ LET g1 == [ Globals EXCEPT !.cadence = c ]
           g2 == [ g1 EXCEPT !.nvram = <<g1.cadence>> ]
           g3 == mesh_sensor_server_restart_timer(g2)
           g4 == [ g3 EXCEPT !.mesh_sensor_pub_time = U32(0) ]
       IN  Commit(g4) /\ Observe("cadence_changed", g4, "")
    /\ rise' = FALSE
    /\ period_fresh' = FALSE
    /\ changes' = changes + 1
    /\ configured' = [ configured EXCEPT !.cadence = <<c>> ]
    /\ UNCHANGED <<phase, now, e93196_blind, lpn_state, since_edge, lpn_sleep, advances, restarts>>

\* mesh_sensor_publish_timer_callback that restarts the timer only in the
\* branch that evaluates the publish conditions
mesh_sensor_publish_timer_callback_noRearmWhenTooSoon ==
    /\ Running
    /\ mesh_sensor_cadence_timer = 0
    /\ LET g0 == [ Globals EXCEPT !.mesh_sensor_cadence_timer = Stopped ]
       IN  \E r \in TickOutcomes(g0) :
             IF r = "fault"
             THEN /\ phase' = "fault"
                  /\ Commit(g0) /\ Observe("tick", g0, r)
                  /\ UNCHANGED rise
             ELSE LET g1 == IF PubNeeded(r) THEN mesh_sensor_publish(g0) ELSE g0
                      g2 == IF r = "too_soon" THEN g1
                            ELSE mesh_sensor_server_restart_timer(g1)
                  IN  /\ phase' = phase
                      /\ Commit(g2) /\ Observe("tick", g2, r)
                      /\ rise' = IF PubNeeded(r) THEN FALSE ELSE rise
    /\ period_fresh' = FALSE
    /\ UNCHANGED <<now, e93196_blind, lpn_state, since_edge, configured, lpn_sleep,
                   advances, restarts, changes>>

\* mesh_sensor_publish_timer_callback that restarts the timer only after a publish
mesh_sensor_publish_timer_callback_rearmOnPublish ==
    /\ Running
    /\ mesh_sensor_cadence_timer = 0
    /\ LET g0 == [ Globals EXCEPT !.mesh_sensor_cadence_timer = Stopped ]
       IN  \E r \in TickOutcomes(g0) :
             IF r = "fault"
             THEN /\ phase' = "fault"
                  /\ Commit(g0) /\ Observe("tick", g0, r)
                  /\ UNCHANGED rise
             ELSE LET g1 == IF PubNeeded(r)
                            THEN mesh_sensor_server_restart_timer(mesh_sensor_publish(g0))
                            ELSE g0
                  IN  /\ phase' = phase
                      /\ Commit(g1) /\ Observe("tick", g1, r)
                      /\ rise' = IF PubNeeded(r) THEN FALSE ELSE rise
    /\ period_fresh' = FALSE
    /\ UNCHANGED <<now, e93196_blind, lpn_state, since_edge, configured, lpn_sleep,
                   advances, restarts, changes>>

\* void mesh_sensor_publish_timer_callback(arg): runs when the cadence timer expires
mesh_sensor_publish_timer_callback ==
    /\ Running
    /\ mesh_sensor_cadence_timer = 0
    /\ LET g0 == [ Globals EXCEPT !.mesh_sensor_cadence_timer = Stopped ]
       IN  \E r \in TickOutcomes(g0) :
             IF r = "fault"
             THEN /\ phase' = "fault"
                  /\ Commit(g0) /\ Observe("tick", g0, r)
                  /\ UNCHANGED rise
             ELSE LET g1 == IF PubNeeded(r) THEN mesh_sensor_publish(g0) ELSE g0
                      g2 == mesh_sensor_server_restart_timer(g1)
                  IN  /\ phase' = phase
                      /\ Commit(g2) /\ Observe("tick", g2, r)
                      /\ rise' = IF PubNeeded(r) THEN FALSE ELSE rise
    /\ period_fresh' = FALSE
    /\ UNCHANGED <<now, e93196_blind, lpn_state, since_edge, configured, lpn_sleep,
                   advances, restarts, changes>>

\* e93196_int_proc that starts the presence timer only when presence was not
\* detected yet
e93196_int_proc_noRetrigger ==
    /\ Running
    /\ e93196_blind = 0
    /\ e93196_blind' = MESH_PRESENCE_DETECTED_BLIND_TIME * 1000
    /\ LET g0 == Globals
           g1 == IF ~g0.presence_detected
                 THEN mesh_sensor_value_changed(
                          [ g0 EXCEPT !.presence_detected = TRUE,
                                      !.mesh_sensor_presence_detected_timer =
                                          2 * MESH_PRESENCE_DETECTED_BLIND_TIME * 1000 ])
                 ELSE g0
       IN  /\ Commit(g1) /\ Observe("edge", g1, "")
           /\ rise' = IF g1.published > 0 THEN FALSE
                      ELSE IF ~presence_detected THEN TRUE
                      ELSE rise
    /\ period_fresh' = (period_fresh /\ presence_detected)
    /\ since_edge' = 0
    /\ UNCHANGED <<phase, now, lpn_state, configured, lpn_sleep, advances, restarts, changes>>

\* void e93196_int_proc(data, port_pin): the sensor's interrupt.  The sensor is
\* configured (e93196_usr_cfg, blind_time register) to raise no further
\* interrupt for MESH_PRESENCE_DETECTED_BLIND_TIME seconds after one.
e93196_int_proc ==
    /\ Running
    /\ e93196_blind = 0
    /\ e93196_blind' = MESH_PRESENCE_DETECTED_BLIND_TIME * 1000
    /\ LET g0 == [ Globals EXCEPT !.mesh_sensor_presence_detected_timer =
                                      2 * MESH_PRESENCE_DETECTED_BLIND_TIME * 1000 ]
           g1 == IF ~g0.presence_detected
                 THEN mesh_sensor_value_changed([ g0 EXCEPT !.presence_detected = TRUE ])
                 ELSE g0
       IN  /\ Commit(g1) /\ Observe("edge", g1, "")
           /\ rise' = IF g1.published > 0 THEN FALSE
                      ELSE IF ~presence_detected THEN TRUE
                      ELSE rise
    /\ period_fresh' = (period_fresh /\ presence_detected)
    /\ since_edge' = 0
    /\ UNCHANGED <<phase, now, lpn_state, configured, lpn_sleep, advances, restarts, changes>>

\* mesh_sensor_presence_detected_timer_callback that leaves presence_detected as it is
mesh_sensor_presence_detected_timer_callback_keepsPresence ==
    /\ Running
    /\ mesh_sensor_presence_detected_timer = 0
    /\ LET g0 == [ Globals EXCEPT !.mesh_sensor_presence_detected_timer = Stopped ]
       IN  /\ Commit(g0) /\ Observe("blind_expired", g0, "")
           /\ rise' = FALSE
    /\ period_fresh' = (period_fresh /\ ~presence_detected)
    /\ UNCHANGED <<phase, now, e93196_blind, lpn_state, since_edge, configured,
                   lpn_sleep, advances, restarts, changes>>

\* void mesh_sensor_presence_detected_timer_callback(arg): the blind-time timer expires
mesh_sensor_presence_detected_timer_callback ==
    /\ Running
    /\ mesh_sensor_presence_detected_timer = 0
    /\ LET g0 == [ Globals EXCEPT !.mesh_sensor_presence_detected_timer = Stopped ]
           g1 == IF g0.presence_detected
                 THEN mesh_sensor_value_changed([ g0 EXCEPT !.presence_detected = FALSE ])
                 ELSE g0
       IN  /\ Commit(g1) /\ Observe("blind_expired", g1, "")
           /\ rise' = FALSE
    /\ period_fresh' = (period_fresh /\ ~presence_detected)
    /\ UNCHANGED <<phase, now, e93196_blind, lpn_state, since_edge, configured,
                   lpn_sleep, advances, restarts, changes>>

\* events of mesh_sensor_server_report_handler
ReportEvents == { "SENSOR_GET", "SENSOR_COLUMN_GET", "SENSOR_SERIES_GET", "unknown" }

\* mesh_sensor_server_report_handler that reads presence_detected and clears it
mesh_sensor_server_report_handler_readAndClear(event) ==
    /\ Running
    /\ IF event = "SENSOR_GET"
       THEN /\ LET g == [ Globals EXCEPT !.mesh_sensor_sent_value =
                                             mesh_sensor_get_current_value(Globals),
                                         !.presence_detected = FALSE,
                                         !.mesh_sensor_presence_detected_timer = Stopped ]
               IN  Commit(g) /\ Observe("get", g, "")
            /\ UNCHANGED <<phase, now, e93196_blind, lpn_state, rise, period_fresh,
                           since_edge, configured, lpn_sleep, advances, restarts, changes>>
       ELSE UNCHANGED vars

\* void mesh_sensor_server_report_handler(event, element_idx, p_get, p_ref_data):
\* a Sensor Get is answered with the current presence value, which goes to the
\* models library through mesh_sensor_sent_value; the other events do nothing
mesh_sensor_server_report_handler(event) ==
    /\ Running
    /\ IF event = "SENSOR_GET"
       THEN /\ LET g == [ Globals EXCEPT !.mesh_sensor_sent_value =
                                             mesh_sensor_get_current_value(Globals) ]
               IN  Commit(g) /\ Observe("get", g, "")
            /\ UNCHANGED <<phase, now, e93196_blind, lpn_state, rise, period_fresh,
                           since_edge, configured, lpn_sleep, advances, restarts, changes>>
       ELSE UNCHANGED vars

\* mesh_app_factory_reset that leaves the NVRAM record in place
mesh_app_factory_reset_keepsRecord ==
    /\ Running
    /\ changes < MaxChanges
    /\ changes' = changes + 1
    /\ configured' = [ cadence |-> <<>>, period |-> 0 ]
    /\ last_op' = [ op |-> "factory_reset", published |-> 0, restarted |-> 0, why |-> "",
                   first |-> FALSE, steady |-> FALSE ]
    /\ UNCHANGED <<phase, now, presence_detected, mesh_sensor_sent_value,
                   mesh_sensor_pub_value, mesh_sensor_pub_time, mesh_sensor_publish_period,
                   mesh_sensor_fast_publish_period, mesh_sensor_sleep_max_time,
                   mesh_sensor_cadence_timer, mesh_sensor_presence_detected_timer,
                   e93196_blind, cadence, nvram, lpn_state, since_pub, pub_gap, rise,
                   period_fresh, since_edge, lpn_sleep, advances, restarts>>

\* void mesh_app_factory_reset(void): deletes the cadence record.  The node's
\* configuration is gone with the reset (configured).
mesh_app_factory_reset ==
    /\ Running
    /\ changes < MaxChanges
    /\ changes' = changes + 1
    /\ nvram' = NoRecord
    /\ configured' = [ cadence |-> <<>>, period |-> 0 ]
    /\ last_op' = [ op |-> "factory_reset", published |-> 0, restarted |-> 0, why |-> "",
                   first |-> FALSE, steady |-> FALSE ]
    /\ UNCHANGED <<phase, now, presence_detected, mesh_sensor_sent_value,
                   mesh_sensor_pub_value, mesh_sensor_pub_time, mesh_sensor_publish_period,
                   mesh_sensor_fast_publish_period, mesh_sensor_sleep_max_time,
                   mesh_sensor_cadence_timer, mesh_sensor_presence_detected_timer,
                   e93196_blind, cadence, lpn_state, since_pub, pub_gap, rise,
                   period_fresh, since_edge, lpn_sleep, advances, restarts>>

NoSleep == [ max_sleep_duration |-> 0, settled |-> 0 ]

\* mesh_sensor_motion_lpn_sleep that applies the configured period whether or
\* not presence is detected
mesh_sensor_motion_lpn_sleep_alwaysCapped(max_sleep_duration) ==
    /\ Running
    /\ LET d1 == IF max_sleep_duration > 60000 THEN 60000 ELSE max_sleep_duration
           d2 == IF /\ mesh_sensor_sleep_max_time # 0
                    /\ mesh_sensor_sleep_max_time < d1
                 THEN mesh_sensor_sleep_max_time
                 ELSE d1
       IN  /\ lpn_sleep' = [ max_sleep_duration |-> max_sleep_duration, settled |-> d2 ]
           /\ IF d2 < 1800000
              THEN lpn_state' = "IDLE" /\ phase' = phase
              ELSE lpn_state' = lpn_state /\ phase' = "hid_off"
    /\ last_op' = [ op |-> "lpn_sleep", published |-> 0, restarted |-> 0, why |-> "",
                   first |-> FALSE, steady |-> FALSE ]
    /\ UNCHANGED <<now, presence_detected, mesh_sensor_sent_value, mesh_sensor_pub_value,
                   mesh_sensor_pub_time, mesh_sensor_publish_period,
                   mesh_sensor_fast_publish_period, mesh_sensor_sleep_max_time,
                   mesh_sensor_cadence_timer, mesh_sensor_presence_detected_timer,
                   e93196_blind, cadence, nvram, since_pub, pub_gap, rise, period_fresh,
                   since_edge, configured, advances, restarts, changes>>

\* void mesh_sensor_motion_lpn_sleep(uint32_t max_sleep_duration): the mesh core
\* allows the low power node to sleep for max_sleep_duration ms.  With less
\* than 30 min settled on the application goes idle (ePDS sleep), otherwise
\* it enters HID-off.
mesh_sensor_motion_lpn_sleep(max_sleep_duration) ==
    /\ Running
    /\ LET d1 == IF max_sleep_duration > 60000 THEN 60000 ELSE max_sleep_duration
           d2 == IF /\ mesh_sensor_sleep_max_time # 0
                    /\ presence_detected
                    /\ mesh_sensor_sleep_max_time < d1
                 THEN mesh_sensor_sleep_max_time
                 ELSE d1
       IN  /\ lpn_sleep' = [ max_sleep_duration |-> max_sleep_duration, settled |-> d2 ]
           /\ IF d2 < 1800000
              THEN lpn_state' = "IDLE" /\ phase' = phase
              ELSE lpn_state' = lpn_state /\ phase' = "hid_off"
    /\ last_op' = [ op |-> "lpn_sleep", published |-> 0, restarted |-> 0, why |-> "",
                   first |-> FALSE, steady |-> FALSE ]
    /\ UNCHANGED <<now, presence_detected, mesh_sensor_sent_value, mesh_sensor_pub_value,
                   mesh_sensor_pub_time, mesh_sensor_publish_period,
                   mesh_sensor_fast_publish_period, mesh_sensor_sleep_max_time,
                   mesh_sensor_cadence_timer, mesh_sensor_presence_detected_timer,
                   e93196_blind, cadence, nvram, since_pub, pub_gap, rise, period_fresh,
                   since_edge, configured, advances, restarts, changes>>

\* Time passes by d ms, up to the next instant at which something can happen:
\* the expiry of a timer or the end of the sensor's blind time.  No armed timer
\* is overrun.
Pending == { t \in { mesh_sensor_cadence_timer, mesh_sensor_presence_detected_timer } : t # Stopped }

Elapse(d) ==
    /\ Running
    /\ \A t \in Pending : d <= t
    /\ now' = Add32(now, U32(d))
    /\ mesh_sensor_cadence_timer' =
           IF mesh_sensor_cadence_timer = Stopped THEN Stopped ELSE mesh_sensor_cadence_timer - d
    /\ mesh_sensor_presence_detected_timer' =
           IF mesh_sensor_presence_detected_timer = Stopped THEN Stopped
           ELSE mesh_sensor_presence_detected_timer - d
    /\ e93196_blind' = IF e93196_blind > d THEN e93196_blind - d ELSE 0
    /\ since_pub' = [ since_pub EXCEPT !.age = Min(@ + d, HistCap) ]
    /\ since_edge' = Min(since_edge + d, HistCap)
    /\ last_op' = [ op |-> "advance", published |-> 0, restarted |-> 0, why |-> "",
                   first |-> FALSE, steady |-> FALSE ]
    /\ UNCHANGED <<phase, presence_detected, mesh_sensor_sent_value, mesh_sensor_pub_value,
                   mesh_sensor_pub_time, mesh_sensor_publish_period,
                   mesh_sensor_fast_publish_period, mesh_sensor_sleep_max_time,
                   cadence, nvram, lpn_state, pub_gap, rise, period_fresh, configured,
                   lpn_sleep, restarts, changes>>

\* a time step of a behaviour, which has MaxAdvances of them
Advance(d) ==
    /\ advances < MaxAdvances
    /\ advances' = advances + 1
    /\ Elapse(d)

-----------------------------------------------------------------------------
(* Specification. *)

\* the globals as the C initialisers leave them (lines 169-181, 204-216)
Init ==
    /\ phase = "boot"
    /\ now \in InitTicks
    /\ presence_detected = FALSE
    /\ mesh_sensor_sent_value = 0
    /\ mesh_sensor_pub_value = 0
    /\ mesh_sensor_pub_time = U32(0)
    /\ mesh_sensor_publish_period = 0
    /\ mesh_sensor_fast_publish_period = 0
    /\ mesh_sensor_sleep_max_time = 0
    /\ mesh_sensor_cadence_timer = Stopped
    /\ mesh_sensor_presence_detected_timer = Stopped
    /\ e93196_blind = 0
    /\ cadence = DefaultCadence
    /\ nvram = NoRecord
    /\ lpn_state = "NOT_IDLE"
    /\ last_op = [ op |-> "none", published |-> 0, restarted |-> 0, why |-> "",
                   first |-> FALSE, steady |-> FALSE ]
    /\ since_pub = [ n |-> 0, age |-> HistCap, I |-> -1, P |-> -1 ]
    /\ pub_gap = NoGap
    /\ rise = FALSE
    /\ period_fresh = FALSE
    /\ since_edge = HistCap
    /\ configured = [ cadence |-> <<>>, period |-> 0 ]
    /\ lpn_sleep = NoSleep
    /\ advances = 0
    /\ restarts = 0
    /\ changes = 0

\* the next-state relation, for cadences drawn from Cadences
NextWith(Cadences) ==
    \/ \E p \in BOOLEAN : mesh_app_init(p)
    \/ \E a \in AddressInputs, p \in PeriodInputs, ret \in BOOLEAN :
         mesh_app_notify_period_set(a[1], a[2], a[3], p, ret)
    \/ \E c \in Cadences : mesh_sensor_server_process_cadence_changed(c)
    \/ mesh_sensor_publish_timer_callback
    \/ e93196_int_proc
    \/ mesh_sensor_presence_detected_timer_callback
    \/ \E d \in { t \in Pending \cup { e93196_blind } : t > 0 } : Advance(d)

Next == NextWith(GateCadences)

Spec == Init /\ [][Next]_vars

NextRange == NextWith(RangeCadences)

SpecRange == Init /\ [][NextRange]_vars

NextTimer == NextWith(TimerCadences)

SpecTimer == Init /\ [][NextTimer]_vars

\* a time step of a behaviour of SpecPeriodic
AdvancePeriodic(d) ==
    /\ advances < MaxPeriodicAdvances
    /\ advances' = advances + 1
    /\ Elapse(d)

\* periodic publishing over several ticks
NextPeriodic ==
    \/ \E p \in BOOLEAN : mesh_app_init(p)
    \/ \E a \in AddressInputs, p \in PeriodInputs, ret \in BOOLEAN :
         mesh_app_notify_period_set(a[1], a[2], a[3], p, ret)
    \/ \E c \in PeriodicCadences : mesh_sensor_server_process_cadence_changed(c)
    \/ mesh_sensor_publish_timer_callback
    \/ e93196_int_proc
    \/ mesh_sensor_presence_detected_timer_callback
    \/ \E d \in { t \in Pending \cup { e93196_blind } : t > 0 } : AdvancePeriodic(d)

SpecPeriodic == Init /\ [][NextPeriodic]_vars

\* A behaviour of SpecLive has a bounded first part, in which the node is
\* configured (MaxChanges configuration events) and the sensor sees motion, and
\* an unbounded second part, in which the configuration stays as it is, the
\* sensor raises no interrupt and time runs on.
ConfigurationComplete == changes = MaxChanges

AdvanceLive(d) ==
    IF ConfigurationComplete
    THEN Elapse(d) /\ UNCHANGED advances
    ELSE Advance(d)

NextLive ==
    \/ \E p \in BOOLEAN : mesh_app_init(p)
    \/ \E a \in AddressInputs, p \in LivePeriodInputs, ret \in BOOLEAN :
         mesh_app_notify_period_set(a[1], a[2], a[3], p, ret)
    \/ \E c \in LiveCadences : mesh_sensor_server_process_cadence_changed(c)
    \/ mesh_sensor_publish_timer_callback
    \/ ~ConfigurationComplete /\ e93196_int_proc
    \/ mesh_sensor_presence_detected_timer_callback
    \/ \E d \in { t \in Pending \cup { e93196_blind } : t > 0 } : AdvanceLive(d)

\* the timers fire when they are due, and time does not stop
SpecLive ==
    /\ Init /\ [][NextLive]_vars
    /\ WF_vars(mesh_sensor_publish_timer_callback)
    /\ WF_vars(mesh_sensor_presence_detected_timer_callback)
    /\ WF_vars(\E d \in { t \in Pending \cup { e93196_blind } : t > 0 } : AdvanceLive(d))

NextDivisor == NextWith(DivisorCadences)

SpecDivisor == Init /\ [][NextDivisor]_vars

NextTrigger == NextWith(TriggerCadences)

SpecTrigger == Init /\ [][NextTrigger]_vars

\* The device restarts (power cycle or reset): the RAM is back at the C
\* initialisers, the timers are gone, the tick count starts again; the NVRAM
\* keeps its record.  mesh_app_init runs next.
Restart ==
    /\ phase # "boot"
    /\ restarts < MaxRestarts
    /\ restarts' = restarts + 1
    /\ phase' = "boot"
    /\ now' = U32(0)
    /\ presence_detected' = FALSE
    /\ mesh_sensor_sent_value' = 0
    /\ mesh_sensor_pub_value' = 0
    /\ mesh_sensor_pub_time' = U32(0)
    /\ mesh_sensor_publish_period' = 0
    /\ mesh_sensor_fast_publish_period' = 0
    /\ mesh_sensor_sleep_max_time' = 0
    /\ mesh_sensor_cadence_timer' = Stopped
    /\ mesh_sensor_presence_detected_timer' = Stopped
    /\ e93196_blind' = 0
    /\ cadence' = DefaultCadence
    /\ lpn_state' = "NOT_IDLE"
    /\ last_op' = [ op |-> "restart", published |-> 0, restarted |-> 0, why |-> "",
                   first |-> FALSE, steady |-> FALSE ]
    /\ since_pub' = [ n |-> 0, age |-> HistCap, I |-> -1, P |-> -1 ]
    /\ pub_gap' = NoGap
    /\ rise' = FALSE
    /\ period_fresh' = FALSE
    /\ since_edge' = HistCap
    /\ lpn_sleep' = NoSleep
    /\ UNCHANGED <<nvram, configured, advances, changes>>

\* with restarts of the device and factory resets
NextRestart ==
    \/ NextWith(RestartCadences)
    \/ mesh_app_factory_reset
    \/ Restart

SpecRestart == Init /\ [][NextRestart]_vars

\* with Sensor Get requests and factory resets
NextFrame ==
    \/ NextWith(SleepCadences)
    \/ mesh_app_factory_reset
    \/ \E e \in ReportEvents : mesh_sensor_server_report_handler(e)

SpecFrame == Init /\ [][NextFrame]_vars

\* with the low power node's sleep requests
NextSleep ==
    \/ NextWith(SleepCadences)
    \/ \E m \in SleepInputs : mesh_sensor_motion_lpn_sleep(m)

SpecSleep == Init /\ [][NextSleep]_vars

-----------------------------------------------------------------------------
(* Claims. *)

\* C1: with min_interval = I > 0 in force, two consecutive publish calls are at
\* least I ms apart, whichever path made them (tick, event-driven, after a
\* reconfiguration).  pub_gap records the distance of the last two publish
\* calls and the min_interval that was in force at both and in between.
C1_PublishesAtLeastMinIntervalApart ==
    pub_gap.I > 0 => pub_gap.gap >= pub_gap.I

\* C2: the first cadence tick after a period was set, with presence unchanged
\* in between, publishes
C2_FirstTickAfterPeriodSetPublishes ==
    (last_op.op = "tick" /\ last_op.first) => last_op.published = 1

\* the Sensor Cadence state counts as not configured (line 730)
CadenceNotConfigured(c) ==
    /\ c.fast_cadence_period_divisor = 1
    /\ c.trigger_delta_up = 0
    /\ c.trigger_delta_down = 0

\* C3: with publish_period = 0 and the cadence not configured, every step that
\* changes presence_detected (either direction) makes exactly one publish
\* call, whatever min_interval is
C3_TransitionPublishesOnce ==
    [][ ( /\ presence_detected' # presence_detected
          /\ mesh_sensor_publish_period = 0
          /\ CadenceNotConfigured(cadence) )
        => ( /\ last_op'.published = 1
             /\ mesh_sensor_pub_value' = (IF presence_detected' THEN 1 ELSE 0) ) ]_vars

\* a presence transition published although the previous publish was less than
\* min_interval ago
C3_Witness ==
    /\ last_op.op \in { "edge", "blind_expired" }
    /\ last_op.published = 1
    /\ mesh_sensor_publish_period = 0
    /\ CadenceNotConfigured(cadence)
    /\ since_pub.n = 2
    /\ pub_gap.gap < cadence.min_interval

\* C4: with publish_period = 320000 and fast_cadence_period_divisor = 32 the
\* fast period is 10000 ms, and a false->true transition of presence is
\* published no later than the next tick of the cadence timer (rise: such a
\* transition happened, the configuration is as it was, no publish since)
C4_RisePublishedWithinOneFastTick ==
    ( /\ phase = "running"
      /\ mesh_sensor_publish_period = 320000
      /\ cadence.fast_cadence_period_divisor = 32 )
    => ( /\ mesh_sensor_fast_publish_period = 10000
         /\ (last_op.op = "tick" => ~rise) )

\* the step is a run of mesh_sensor_publish_timer_callback
TickStep == mesh_sensor_cadence_timer = 0 /\ last_op'.op = "tick"

\* elapsed since the last publish >= publish_period, publish_period != 0
BasePeriodExpired ==
    /\ mesh_sensor_publish_period # 0
    /\ Ge32(Sub32(now, mesh_sensor_pub_time), U32(mesh_sensor_publish_period))

\* the value is the one that was published
ValueUnchanged == mesh_sensor_pub_value = (IF presence_detected THEN 1 ELSE 0)

\* min_interval = 0, or elapsed since the last publish >= min_interval
MinIntervalSatisfied ==
    \/ cadence.min_interval = 0
    \/ Ge32(Sub32(now, mesh_sensor_pub_time), U32(cadence.min_interval))

\* exactly one publish, which sets mesh_sensor_pub_time to the tick's time
PublishedOnceNow ==
    /\ last_op'.published = 1
    /\ mesh_sensor_pub_time' = now

\* C5 as stated: every tick with the value unchanged and the base period
\* expired makes exactly one publish and sets mesh_sensor_pub_time to the
\* tick's time
C5_ExpiredPeriodTickPublishes ==
    [][ (TickStep /\ ValueUnchanged /\ BasePeriodExpired) => PublishedOnceNow ]_vars

\* C5, amended: every tick with the value unchanged, the base period expired
\* and min_interval satisfied (min_interval = 0 or elapsed >= min_interval)
\* makes exactly one publish and sets mesh_sensor_pub_time to the tick's time
C5_ExpiredPeriodTickPublishesUnlessTooSoon ==
    [][ (TickStep /\ ValueUnchanged /\ BasePeriodExpired /\ MinIntervalSatisfied)
        => PublishedOnceNow ]_vars

\* a tick found the published value unchanged and published because the base
\* period had expired
C5_Witness ==
    /\ last_op.op = "tick"
    /\ last_op.steady
    /\ last_op.why = "period"
    /\ last_op.published = 1
    /\ mesh_sensor_pub_time = now

\* the tick reaches the fast cadence test: min_interval satisfied, base period
\* not expired, fast period enabled and elapsed >= fast period
ReachesFastTest ==
    /\ TickStep
    /\ MinIntervalSatisfied
    /\ ~BasePeriodExpired
    /\ mesh_sensor_fast_publish_period # 0
    /\ Ge32(Sub32(now, mesh_sensor_pub_time), U32(mesh_sensor_fast_publish_period))

\* the tick makes no delta (trigger) publish
NoDeltaPublish == last_op'.why # "trigger"

CurrentValue == IF presence_detected THEN 1 ELSE 0

\* C6: a tick that reaches the fast cadence test with fast_cadence_high >
\* fast_cadence_low publishes iff fast_cadence_low < value <= fast_cadence_high
C6_NormalRange ==
    [][ ( /\ ReachesFastTest /\ NoDeltaPublish
          /\ cadence.fast_cadence_high > cadence.fast_cadence_low )
        => ( last_op'.published = 1
             <=> ( /\ cadence.fast_cadence_low < CurrentValue
                   /\ CurrentValue <= cadence.fast_cadence_high ) ) ]_vars

\* a tick published by the fast cadence test with the value at the upper bound
\* of a normal range
C6_Witness ==
    /\ last_op.op = "tick"
    /\ last_op.why = "range"
    /\ cadence.fast_cadence_high > cadence.fast_cadence_low
    /\ mesh_sensor_pub_value = cadence.fast_cadence_high

\* C7: a tick that reaches the fast cadence test with fast_cadence_high <
\* fast_cadence_low publishes iff value >= fast_cadence_low or value <
\* fast_cadence_high
C7_InvertedRange ==
    [][ ( /\ ReachesFastTest /\ NoDeltaPublish
          /\ cadence.fast_cadence_high < cadence.fast_cadence_low )
        => ( last_op'.published = 1
             <=> ( \/ CurrentValue >= cadence.fast_cadence_low
                   \/ CurrentValue < cadence.fast_cadence_high ) ) ]_vars

\* a tick published by the fast cadence test with the value at
\* fast_cadence_low of an inverted range
C7_Witness ==
    /\ last_op.op = "tick"
    /\ last_op.why = "range"
    /\ cadence.fast_cadence_high < cadence.fast_cadence_low
    /\ mesh_sensor_pub_value = cadence.fast_cadence_low

\* C8: a tick that reaches the fast cadence test with fast_cadence_high =
\* fast_cadence_low publishes iff value = fast_cadence_low
C8_EqualBounds ==
    [][ ( /\ ReachesFastTest /\ NoDeltaPublish
          /\ cadence.fast_cadence_high = cadence.fast_cadence_low )
        => ( last_op'.published = 1 <=> CurrentValue = cadence.fast_cadence_low ) ]_vars

\* a tick published by the fast cadence test with equal bounds
C8_Witness ==
    /\ last_op.op = "tick"
    /\ last_op.why = "range"
    /\ cadence.fast_cadence_high = cadence.fast_cadence_low
    /\ mesh_sensor_pub_value = cadence.fast_cadence_low

\* C9: a call of mesh_app_notify_period_set returns true iff it addresses the
\* sensor element and the sensor server model; an accepted call makes
\* mesh_sensor_publish_period the delivered period; a rejected call leaves
\* the period, the cadence timer and the publication record unchanged.
\* (A rejected call is a step that leaves every variable as it was, which
\* satisfies [A]_vars for every A; the formula is evaluated on the other steps.)
C9_PeriodSetAcceptedIffAddressed ==
    [][ vars' # vars
        => \A a \in AddressInputs, p \in PeriodInputs, ret \in BOOLEAN :
             mesh_app_notify_period_set(a[1], a[2], a[3], p, ret)
             => ( /\ ret <=> ( /\ a[1] = MESH_MOTION_SENSOR_INDEX
                               /\ a[2] = "BT_SIG"
                               /\ a[3] = "SENSOR_SRV" )
                  /\ ret => mesh_sensor_publish_period' = p
                  /\ ~ret => UNCHANGED <<mesh_sensor_publish_period,
                                         mesh_sensor_cadence_timer,
                                         mesh_sensor_fast_publish_period,
                                         mesh_sensor_sleep_max_time,
                                         mesh_sensor_sent_value,
                                         mesh_sensor_pub_value,
                                         mesh_sensor_pub_time>> ) ]_vars

\* an accepted period change replaced an earlier period by a different one
C9_Witness ==
    /\ last_op.op = "period_set"
    /\ mesh_sensor_publish_period = 320000
    /\ mesh_sensor_cadence_timer # Stopped
    /\ changes = 2
    /\ cadence = DefaultCadence

\* C10: a cadence change that carries fast_cadence_period_divisor = 0 leaves
\* the cadence, the NVRAM record, the cadence timer and mesh_sensor_pub_time
\* as they were
C10_MalformedCadenceRejected ==
    [][ \A c \in GateCadences :
          ( /\ c.fast_cadence_period_divisor = 0
            /\ mesh_sensor_server_process_cadence_changed(c) )
          => UNCHANGED <<cadence, nvram, mesh_sensor_cadence_timer,
                         mesh_sensor_fast_publish_period, mesh_sensor_pub_time>> ]_vars

\* C11: with publish_period # 0 a step that changes presence_detected (either
\* direction) makes no publish call and leaves the published value, the
\* publish time, the cadence timer and the fast period as they were; the value
\* goes out with a tick: a tick that publishes publishes the value presence has
\* at that tick
C11_ChangeDeferredToTick ==
    [][ /\ ( /\ presence_detected' # presence_detected
             /\ mesh_sensor_publish_period # 0 )
           => ( /\ last_op'.published = 0
                /\ UNCHANGED <<mesh_sensor_sent_value, mesh_sensor_pub_value,
                               mesh_sensor_pub_time, mesh_sensor_cadence_timer,
                               mesh_sensor_fast_publish_period,
                               mesh_sensor_publish_period>> )
        /\ (TickStep /\ last_op'.published = 1)
           => mesh_sensor_pub_value' = CurrentValue ]_vars

\* an interrupt has just turned presence on with the cadence timer running:
\* nothing was published, the published value is still 0
C11_Witness ==
    /\ last_op.op = "edge"
    /\ last_op.published = 0
    /\ rise
    /\ presence_detected
    /\ mesh_sensor_pub_value = 0
    /\ mesh_sensor_publish_period # 0
    /\ mesh_sensor_cadence_timer # Stopped

\* the step is a run of e93196_int_proc
EdgeStep == e93196_blind = 0 /\ last_op'.op = "edge" /\ e93196_blind' # 0

\* the full duration of the presence timer, in ms
FullBlindInterval == 2 * MESH_PRESENCE_DETECTED_BLIND_TIME * 1000

\* C12: every interrupt restarts the presence timer at its full duration
\* (2 x blind time); presence goes from detected to not detected only when
\* that long has passed since the last interrupt; an interrupt while presence
\* is detected changes neither presence nor the publication record
C12_RetriggerableDebounce ==
    [][ /\ EdgeStep
           => ( /\ mesh_sensor_presence_detected_timer' = FullBlindInterval
                /\ presence_detected' )
        /\ (EdgeStep /\ presence_detected)
           => ( /\ last_op'.published = 0
                /\ UNCHANGED <<mesh_sensor_sent_value, mesh_sensor_pub_value,
                               mesh_sensor_pub_time, mesh_sensor_cadence_timer>> )
        /\ (presence_detected /\ ~presence_detected')
           => since_edge >= FullBlindInterval ]_vars

\* presence was lost after two interrupts: the second one, 7 s after the first,
\* restarted the timer, and presence ended 14 s after the second
C12_Witness ==
    /\ last_op.op = "blind_expired"
    /\ ~presence_detected
    /\ since_edge = FullBlindInterval
    /\ now = U32(MESH_PRESENCE_DETECTED_BLIND_TIME * 1000 + FullBlindInterval)

\* the fast period that belongs to publish period p and cadence c
FastTimeoutOf(p, c) ==
    IF c.fast_cadence_period_divisor > 1 THEN p \div c.fast_cadence_period_divisor ELSE 0

\* the duration of the cadence timer that belongs to publish period p and cadence c
TimeoutOf(p, c) ==
    LET t == IF c.fast_cadence_period_divisor > 1
             THEN p \div c.fast_cadence_period_divisor ELSE p
    IN  IF /\ c.min_interval # 0
           /\ c.min_interval > t
           /\ (c.trigger_delta_up # 0 \/ c.trigger_delta_down # 0)
        THEN c.min_interval ELSE t

\* C13: the one cadence timer, when it is pending, was armed for the duration
\* that belongs to the current publish period and the current cadence (and
\* the fast period is the one that belongs to them), so a tick never runs on
\* a deadline computed from replaced parameters
C13_PendingDeadlineIsCurrent ==
    mesh_sensor_cadence_timer # Stopped
    => ( /\ mesh_sensor_publish_period # 0
         /\ mesh_sensor_sleep_max_time = TimeoutOf(mesh_sensor_publish_period, cadence)
         /\ mesh_sensor_fast_publish_period = FastTimeoutOf(mesh_sensor_publish_period, cadence)
         /\ mesh_sensor_cadence_timer >= 0
         /\ mesh_sensor_cadence_timer <= mesh_sensor_sleep_max_time )

\* a cadence change replaced a running timer of 320000 ms by one of 10000 ms
C13_Witness ==
    /\ last_op.op = "cadence_changed"
    /\ mesh_sensor_publish_period = 320000
    /\ cadence.fast_cadence_period_divisor = 32
    /\ mesh_sensor_cadence_timer = 10000
    /\ advances = 1

\* C14 as stated: the duration a sleep request settles on is at most the last
\* computed cadence timeout whenever that timeout is nonzero, with or without
\* presence
C14_SleepCappedByCadenceTimeout ==
    (last_op.op = "lpn_sleep" /\ mesh_sensor_sleep_max_time # 0)
    => lpn_sleep.settled <= mesh_sensor_sleep_max_time

\* C14, amended: the duration a sleep request settles on is at most 60000 ms
\* and at most the duration offered; it is at most the last computed cadence
\* timeout when that timeout is nonzero and presence is detected; without
\* presence (or with a timeout of 0) it is the smaller of the duration offered
\* and 60000 ms, whatever the cadence timeout is
C14_SleepCappedWhilePresenceDetected ==
    last_op.op = "lpn_sleep"
    => ( /\ lpn_sleep.settled <= 60000
         /\ lpn_sleep.settled <= lpn_sleep.max_sleep_duration
         /\ (presence_detected /\ mesh_sensor_sleep_max_time # 0)
            => lpn_sleep.settled = Min(mesh_sensor_sleep_max_time,
                                       Min(lpn_sleep.max_sleep_duration, 60000))
         /\ (~presence_detected \/ mesh_sensor_sleep_max_time = 0)
            => lpn_sleep.settled = Min(lpn_sleep.max_sleep_duration, 60000) )

\* a sleep request with presence detected settled on the cadence timeout, which
\* is below the duration offered
C14_Witness ==
    /\ last_op.op = "lpn_sleep"
    /\ presence_detected
    /\ mesh_sensor_sleep_max_time = 10000
    /\ lpn_sleep.max_sleep_duration = 30000
    /\ lpn_sleep.settled = 10000

\* the step is the provisioned initialisation
ProvisionedInitStep == phase # "running" /\ phase' = "running"

\* the cadence after the provisioned initialisation: the cadence last
\* configured when the store has it and the read succeeds, the startup
\* default after a factory reset, with nothing configured, or with a failed read
CadenceRestoredOrDefault ==
    /\ configured.cadence = <<>> => last_op'.why = "no_record"
    /\ configured.cadence # <<>> => last_op'.why \in { "restored", "read_failed" }
    /\ cadence' = IF last_op'.why = "restored" THEN configured.cadence[1] ELSE DefaultCadence

\* C15 as stated: after the provisioned initialisation the cadence is the one
\* last configured (the default after a factory reset or a failed read) and
\* the publish period is the one last configured
C15_CadenceAndPeriodSurviveRestart ==
    [][ ProvisionedInitStep
        => ( /\ CadenceRestoredOrDefault
             /\ mesh_sensor_publish_period' = configured.period ) ]_vars

\* C15, amended: after the provisioned initialisation the cadence is the one
\* last configured (the default after a factory reset or a failed read); the
\* publish period is 0, whatever was configured before the restart
C15_CadenceSurvivesRestartPeriodDoesNot ==
    [][ ProvisionedInitStep
        => ( /\ CadenceRestoredOrDefault
             /\ mesh_sensor_publish_period' = 0 ) ]_vars

\* after a restart the provisioned initialisation restored a configured
\* cadence, and the period configured before the restart is gone
C15_Witness ==
    /\ last_op.op = "init"
    /\ last_op.why = "restored"
    /\ restarts = 1
    /\ cadence # DefaultCadence
    /\ configured.cadence = <<cadence>>
    /\ configured.period = 320000
    /\ mesh_sensor_publish_period = 0

\* the last operation ran mesh_sensor_server_restart_timer with a nonzero
\* publish period, and nothing has happened since
TimerJustRestarted ==
    /\ phase = "running"
    /\ last_op.op \in { "period_set", "cadence_changed", "tick" }
    /\ mesh_sensor_publish_period # 0

\* the timeout as the claim C16 computes it: the publish period, replaced by
\* min_interval when min_interval is nonzero, above the publish period, and a
\* delta trigger is configured
TimeoutFromBasePeriod(p, c) ==
    IF /\ c.min_interval # 0
       /\ c.min_interval > p
       /\ (c.trigger_delta_up # 0 \/ c.trigger_delta_down # 0)
    THEN c.min_interval ELSE p

\* C16 as stated: the timer is armed for the publish period (or min_interval in
\* its place); the divisor has no part in the armed duration
C16_ArmedForBasePeriod ==
    TimerJustRestarted
    => mesh_sensor_cadence_timer = TimeoutFromBasePeriod(mesh_sensor_publish_period, cadence)

\* C16, amended: the timer is armed for timeout, where timeout is
\* publish_period / divisor when the divisor is above 1 and publish_period
\* otherwise, replaced by min_interval exactly when min_interval # 0,
\* min_interval > that timeout and a delta trigger is configured; the same
\* duration is recorded as mesh_sensor_sleep_max_time
C16_ArmedForFastOrBasePeriod ==
    TimerJustRestarted
    => ( /\ mesh_sensor_cadence_timer = TimeoutOf(mesh_sensor_publish_period, cadence)
         /\ mesh_sensor_sleep_max_time = mesh_sensor_cadence_timer )

\* the timer was armed for min_interval in place of a shorter fast period
C16_Witness ==
    /\ TimerJustRestarted
    /\ cadence.fast_cadence_period_divisor = 32
    /\ cadence.trigger_delta_up # 0
    /\ cadence.min_interval = 1024
    /\ mesh_sensor_publish_period = 100
    /\ mesh_sensor_cadence_timer = 1024

\* a delta trigger is configured
DeltaConfigured == cadence.trigger_delta_up # 0 \/ cadence.trigger_delta_down # 0

\* the value has not moved from the published value by a configured delta
ThresholdNotExceeded ==
    /\ ~( /\ cadence.trigger_delta_up # 0
          /\ CurrentValue >= mesh_sensor_pub_value + cadence.trigger_delta_up )
    /\ ~( /\ cadence.trigger_delta_down # 0
          /\ CurrentValue + cadence.trigger_delta_down <= mesh_sensor_pub_value )

\* the tick gets past the min_interval and period tests with a delta trigger
\* configured and its threshold not exceeded
TriggerDoesNotFire ==
    /\ TickStep
    /\ MinIntervalSatisfied
    /\ ~BasePeriodExpired
    /\ DeltaConfigured
    /\ ThresholdNotExceeded

\* fast period enabled and elapsed >= fast period
FastPeriodElapsed ==
    /\ mesh_sensor_fast_publish_period # 0
    /\ Ge32(Sub32(now, mesh_sensor_pub_time), U32(mesh_sensor_fast_publish_period))

\* the value lies in the fast cadence window
InFastWindow ==
    \/ /\ cadence.fast_cadence_high > cadence.fast_cadence_low
       /\ cadence.fast_cadence_low < CurrentValue
       /\ CurrentValue <= cadence.fast_cadence_high
    \/ /\ cadence.fast_cadence_high < cadence.fast_cadence_low
       /\ (CurrentValue >= cadence.fast_cadence_low \/ CurrentValue < cadence.fast_cadence_high)
    \/ /\ cadence.fast_cadence_high = cadence.fast_cadence_low
       /\ CurrentValue = cadence.fast_cadence_low

C18_TickRearmsTimer ==
    [][ (TickStep /\ phase' = "running")
        => ( /\ mesh_sensor_publish_period' # 0
             /\ mesh_sensor_cadence_timer' # Stopped
             /\ mesh_sensor_cadence_timer' > 0
             /\ mesh_sensor_cadence_timer' = TimeoutOf(mesh_sensor_publish_period', cadence') ) ]_vars

\* a tick that min_interval suppressed left the timer armed
C18_Witness ==
    /\ last_op.op = "tick"
    /\ last_op.why = "too_soon"
    /\ last_op.published = 0
    /\ mesh_sensor_cadence_timer = mesh_sensor_publish_period
    /\ mesh_sensor_cadence_timer > 0

\* C19: with publish_period = 0 the cadence timer is stopped: a restart of the
\* timer with publish_period = 0 stops it and arms nothing, and no tick runs
\* before a nonzero period has been set
C19_NoTimerWithoutPeriod ==
    mesh_sensor_publish_period = 0 => mesh_sensor_cadence_timer = Stopped

\* a period of 0 was set while the timer was running (the duration it was last
\* armed for is still recorded), and the timer is stopped
C19_Witness ==
    /\ last_op.op = "period_set"
    /\ mesh_sensor_publish_period = 0
    /\ mesh_sensor_sleep_max_time # 0
    /\ mesh_sensor_cadence_timer = Stopped

\* C20: after a restart of the timer with a nonzero publish period the fast
\* period is publish_period / divisor (integer division) when the divisor is
\* above 1, and 0 otherwise
C20_FastPeriodIsPeriodOverDivisor ==
    TimerJustRestarted
    => mesh_sensor_fast_publish_period =
           ( IF cadence.fast_cadence_period_divisor > 1
             THEN mesh_sensor_publish_period \div cadence.fast_cadence_period_divisor
             ELSE 0 )

\* the fast period of publish period 100 and divisor 32 is 3 (100 / 32 rounded down)
C20_Witness ==
    /\ TimerJustRestarted
    /\ mesh_sensor_publish_period = 100
    /\ cadence.fast_cadence_period_divisor = 32
    /\ mesh_sensor_fast_publish_period = 3

\* C21: a tick with min_interval # 0 and elapsed since the last publish below
\* min_interval makes no publish call and leaves the published value, the
\* value handed to the library and the publish time as they were, also when
\* the base period has expired or the fast cadence test would publish
C21_TooSoonTickPublishesNothing ==
    [][ ( /\ TickStep
          /\ cadence.min_interval # 0
          /\ Lt32(Sub32(now, mesh_sensor_pub_time), U32(cadence.min_interval)) )
        => ( /\ last_op'.published = 0
             /\ last_op'.why = "too_soon"
             /\ UNCHANGED <<mesh_sensor_pub_value, mesh_sensor_sent_value,
                            mesh_sensor_pub_time>> ) ]_vars

\* min_interval suppressed a tick at which the base period had expired
C21_Witness ==
    /\ last_op.op = "tick"
    /\ last_op.why = "too_soon"
    /\ last_op.published = 0
    /\ BasePeriodExpired
    /\ ~MinIntervalSatisfied

\* the tick reaches the trigger test with a native (non-percentage) trigger:
\* min_interval satisfied, base period not expired, a delta configured
ReachesNativeTrigger ==
    /\ TickStep
    /\ MinIntervalSatisfied
    /\ ~BasePeriodExpired
    /\ DeltaConfigured
    /\ ~cadence.trigger_type_percentage

\* the value has moved from the published value by more than a configured delta
DeltaExceeded ==
    \/ /\ cadence.trigger_delta_up # 0
       /\ CurrentValue - mesh_sensor_pub_value > cadence.trigger_delta_up
    \/ /\ cadence.trigger_delta_down # 0
       /\ mesh_sensor_pub_value - CurrentValue > cadence.trigger_delta_down

\* C22: a tick that reaches the trigger test with a native trigger publishes on
\* the delta rule iff the value has moved from the published value by more
\* than trigger_delta_up upwards or by more than trigger_delta_down downwards;
\* a move of exactly the delta does not publish
C22_NativeTriggerIffDeltaExceeded ==
    [][ ReachesNativeTrigger => (last_op'.why = "trigger" <=> DeltaExceeded) ]_vars

\* the step is an operation that called mesh_sensor_publish
PublishStep == vars' # vars /\ last_op'.published >= 1

\* the publication record after a publish: the value presence has, at the
\* time of the publish
PublicationRecordSet ==
    /\ last_op'.published = 1
    /\ mesh_sensor_pub_value' = (IF presence_detected' THEN 1 ELSE 0)
    /\ mesh_sensor_sent_value' = mesh_sensor_pub_value'
    /\ mesh_sensor_pub_time' = now
    /\ now' = now

\* the cadence timer and the fast period as mesh_sensor_server_restart_timer
\* leaves them
TimerAsRestarted ==
    IF mesh_sensor_publish_period' = 0
    THEN mesh_sensor_cadence_timer' = Stopped
    ELSE /\ mesh_sensor_cadence_timer' = TimeoutOf(mesh_sensor_publish_period', cadence')
         /\ mesh_sensor_fast_publish_period' =
                FastTimeoutOf(mesh_sensor_publish_period', cadence')

\* the publish was made by the "cadence not configured" branch of the event path
UnconfiguredEventPublish ==
    /\ last_op'.op \in { "edge", "blind_expired" }
    /\ CadenceNotConfigured(cadence)

\* C23 as stated: every operation that publishes sets the published value to
\* the presence value and the publish time to the current time, and calls
\* mesh_sensor_server_restart_timer after the publish
C23_PublishThenRestartTimer ==
    [][ PublishStep => (PublicationRecordSet /\ last_op'.restarted >= 1) ]_vars

\* C23, amended: every operation that publishes sets the published value to
\* the presence value and the publish time to the current time; the tick and
\* the trigger branch of the event path call mesh_sensor_server_restart_timer
\* after the publish, the "cadence not configured" branch of the event path
\* returns without calling it (the publish period is 0 there and the timer is
\* stopped already); in every case the timer is left as a restart leaves it
C23_PublishSetsRecordTimerAsRestarted ==
    [][ PublishStep
        => ( /\ PublicationRecordSet
             /\ TimerAsRestarted
             /\ IF UnconfiguredEventPublish
                THEN last_op'.restarted = 0 /\ mesh_sensor_publish_period' = 0
                ELSE last_op'.restarted = 1 ) ]_vars

\* the trigger branch of the event path has published and restarted the timer
C23_Witness ==
    /\ last_op.op \in { "edge", "blind_expired" }
    /\ last_op.published = 1
    /\ last_op.restarted = 1
    /\ ~CadenceNotConfigured(cadence)
    /\ mesh_sensor_pub_time = now
    /\ mesh_sensor_cadence_timer = Stopped

\* the step is a presence change handled by the event path with the cadence
\* configured: publish_period = 0 and not the "not configured" branch
ConfiguredEventStep ==
    /\ presence_detected' # presence_detected
    /\ mesh_sensor_publish_period = 0
    /\ ~CadenceNotConfigured(cadence)

\* the trigger test of the event path (lines 748-749) on the new presence value
EventTriggerHolds ==
    LET cur == U32(IF presence_detected' THEN 1 ELSE 0)
        pub == U32(mesh_sensor_pub_value)
    IN  \/ /\ cadence.trigger_delta_down # 0
           /\ Lt32(cur, Sub32(pub, U32(cadence.trigger_delta_down)))
        \/ /\ cadence.trigger_delta_up # 0
           /\ Gt32(cur, Sub32(pub, U32(cadence.trigger_delta_up)))

\* now - last publish time < min_interval on 32-bit tick counts, the gate of
\* the tick path
ElapsedBelowMinInterval ==
    Lt32(Sub32(now, mesh_sensor_pub_time), U32(cadence.min_interval))

\* C24: in the event path with the cadence configured a presence change is
\* suppressed by min_interval exactly when now - last publish time <
\* min_interval on 32-bit tick counts (the gate of the tick path), also across
\* a wrap of the tick count: with less elapsed nothing is published, and with
\* at least min_interval elapsed the trigger test decides
C24_EventGateIsElapsedTest ==
    [][ ConfiguredEventStep
        => ( /\ ElapsedBelowMinInterval => last_op'.published = 0
             /\ (~ElapsedBelowMinInterval /\ EventTriggerHolds)
                => last_op'.published = 1 ) ]_vars

\* the min_interval test of the event path (line 739) lets the change through
EventGatePassed ==
    ~Gt32(Add32(mesh_sensor_pub_time, U32(cadence.min_interval)), now)

\* the new presence value lies above the published value by more than
\* trigger_delta_up or below it by more than trigger_delta_down
NewValueExceedsDelta ==
    LET cur == IF presence_detected' THEN 1 ELSE 0
    IN  \/ /\ cadence.trigger_delta_up # 0
           /\ cur - mesh_sensor_pub_value > cadence.trigger_delta_up
        \/ /\ cadence.trigger_delta_down # 0
           /\ mesh_sensor_pub_value - cur > cadence.trigger_delta_down

\* C25: in the event path with the cadence configured and the min_interval
\* test passed, a presence change publishes iff the new value lies above the
\* published value by more than trigger_delta_up or below it by more than
\* trigger_delta_down, whatever trigger_type_percentage is
C25_EventPublishesIffDeltaExceeded ==
    [][ (ConfiguredEventStep /\ EventGatePassed)
        => (last_op'.published = 1 <=> NewValueExceedsDelta) ]_vars

\* the tick evaluates a quotient of the percentage trigger (lines 612-630):
\* the trigger test is reached with a percentage trigger, and the value is
\* above the published value with trigger_delta_up # 0, or otherwise below it
\* with trigger_delta_down # 0
ReachesPercentDivision ==
    /\ TickStep
    /\ MinIntervalSatisfied
    /\ ~BasePeriodExpired
    /\ cadence.trigger_type_percentage
    /\ \/ cadence.trigger_delta_up # 0 /\ CurrentValue > mesh_sensor_pub_value
       \/ /\ ~(cadence.trigger_delta_up # 0 /\ CurrentValue > mesh_sensor_pub_value)
          /\ cadence.trigger_delta_down # 0
          /\ CurrentValue < mesh_sensor_pub_value

\* C27: no tick evaluation divides by zero: whenever a tick evaluates a
\* quotient of the percentage trigger, the divisor current_value is not 0
C27_NoDivisionByZero ==
    [][ ReachesPercentDivision => CurrentValue # 0 ]_vars

\* the step is an operation of the cadence scheduler or of the configuration:
\* a tick, an accepted period change, a cadence change, a Sensor Get, a factory reset
SchedulerOrConfigStep ==
    /\ vars' # vars
    /\ last_op'.op \in { "tick", "period_set", "cadence_changed", "get", "factory_reset" }

\* C26: presence_detected and the presence timer are written by the detector
\* only: a tick, a period change, a cadence change, a Sensor Get and a factory
\* reset leave both as they were; presence_detected changes only in an
\* interrupt or an expiry of the presence timer, and the presence timer
\* changes only there and by the passing of time
C26_PresenceWrittenByDetectorOnly ==
    [][ /\ SchedulerOrConfigStep
           => UNCHANGED <<presence_detected, mesh_sensor_presence_detected_timer>>
        /\ presence_detected' # presence_detected
           => last_op'.op \in { "edge", "blind_expired" }
        /\ mesh_sensor_presence_detected_timer' # mesh_sensor_presence_detected_timer
           => last_op'.op \in { "edge", "blind_expired", "advance" } ]_vars

\* a Sensor Get was answered with presence detected and the presence timer
\* running: the value 1 went out, the published value is still 0
C26_Witness ==
    /\ last_op.op = "get"
    /\ presence_detected
    /\ mesh_sensor_presence_detected_timer > 0
    /\ mesh_sensor_sent_value = 1
    /\ mesh_sensor_pub_value = 0

\* C30: whenever mesh_sensor_server_restart_timer has armed the cadence timer
\* (publish_period # 0), the duration it armed it for is at least 1 ms,
\* whatever the divisor is
C30_ArmedDurationAtLeastOne ==
    TimerJustRestarted
    => ( /\ mesh_sensor_cadence_timer >= 1
         /\ mesh_sensor_sleep_max_time >= 1 )

\* the step is a tick that publishes, the publish before it was made under the
\* publish period that is still in force, no period or cadence has been set
\* in between, and min_interval is not above the period
NextPeriodicPublish ==
    /\ TickStep
    /\ last_op'.published = 1
    /\ mesh_sensor_publish_period # 0
    /\ since_pub.P = mesh_sensor_publish_period
    /\ cadence.min_interval <= mesh_sensor_publish_period

\* C28: while the publish period P # 0 and the cadence stay as they are and
\* min_interval <= P, a publish comes no later than P ms after the publish
\* before it (since_pub.age: the time since that publish)
C28_PublishGapAtMostPeriod ==
    [][ NextPeriodicPublish => since_pub.age <= mesh_sensor_publish_period ]_vars

\* a tick has just published
TickPublished == last_op.op = "tick" /\ last_op.published = 1

\* C29: once the configuration stays as it is with publish_period # 0, and
\* the cadence timer fires whenever it is due, a publish happens again and
\* again, whatever the cadence is
C29_PublishesInfinitelyOften ==
    <>[](ConfigurationComplete /\ mesh_sensor_publish_period # 0) => []<>TickPublished

\* C29 without the tick that divides by zero: once the configuration stays as
\* it is with publish_period # 0, a publish happens again and again unless a
\* tick evaluation faults; this covers min_interval above the publish period,
\* with the timer armed for the period and with the timer armed for min_interval
C29_PublishesInfinitelyOftenUnlessFault ==
    <>[](ConfigurationComplete /\ mesh_sensor_publish_period # 0)
    => ([]<>TickPublished \/ <>(phase = "fault"))

\* no periodic publishing, fast cadence on, no trigger delta
FastCadenceOnlyNoPeriod ==
    /\ phase = "running"
    /\ mesh_sensor_publish_period = 0
    /\ cadence.fast_cadence_period_divisor > 1
    /\ cadence.trigger_delta_up = 0
    /\ cadence.trigger_delta_down = 0

\* C31: with publish_period = 0 and a cadence with fast_cadence_period_divisor
\* above 1 and both trigger deltas 0, no operation publishes: a presence
\* change, in either direction, makes no publish call, and no tick runs
C31_FastCadenceOnlyNeverPublishes ==
    [][ FastCadenceOnlyNoPeriod
        => ( /\ ~PublishStep
             /\ ~TickStep
             /\ (presence_detected' # presence_detected /\ phase' = "running")
                => UNCHANGED <<mesh_sensor_pub_value, mesh_sensor_pub_time,
                               mesh_sensor_cadence_timer>> ) ]_vars

\* presence has gone on and off again in that configuration with nothing
\* published: the published value and the publish time are as the cadence
\* change left them
C31_Witness ==
    /\ FastCadenceOnlyNoPeriod
    /\ last_op.op = "blind_expired"
    /\ last_op.published = 0
    /\ ~presence_detected
    /\ since_edge = FullBlindInterval
    /\ since_pub.n = 0
    /\ mesh_sensor_cadence_timer = Stopped

\* the scheduler states: PeriodicArmed, a cadence deadline is pending, and
\* Idle, none is
PeriodicArmed == mesh_sensor_cadence_timer # Stopped
Idle          == mesh_sensor_cadence_timer = Stopped

\* C32: between operations of the provisioned, running node the cadence timer
\* is armed exactly when publish_period is not 0: PeriodicArmed with a period,
\* Idle without one, whatever period changes, cadence changes, ticks and
\* presence events came before
C32_ArmedIffPeriodSet ==
    phase = "running"
    => /\ PeriodicArmed <=> mesh_sensor_publish_period # 0
       /\ Idle <=> mesh_sensor_publish_period = 0

\* a tick that published nothing has left the timer armed under a period, with
\* presence detected and a cadence change behind it
C32_Witness ==
    /\ phase = "running"
    /\ last_op.op = "tick"
    /\ last_op.published = 0
    /\ PeriodicArmed
    /\ mesh_sensor_publish_period # 0
    /\ presence_detected
    /\ cadence # DefaultCadence

\* the presence (blind-time) timer is pending: started and not yet run
PresenceTimerPending == mesh_sensor_presence_detected_timer # Stopped

\* C33: between operations presence_detected is TRUE exactly when the presence
\* timer is pending, whatever interrupts and timer expiries came before
C33_PresenceIffTimerPending ==
    presence_detected <=> PresenceTimerPending

\* presence is detected and the timer is half-way: a first interrupt was
\* published, a second one 7 s later restarted the timer without a publish,
\* and 7 s have passed since
C33_Witness ==
    /\ phase = "running"
    /\ presence_detected
    /\ mesh_sensor_presence_detected_timer = MESH_PRESENCE_DETECTED_BLIND_TIME * 1000
    /\ since_edge = MESH_PRESENCE_DETECTED_BLIND_TIME * 1000
    /\ since_pub.n = 1
    /\ since_pub.age = FullBlindInterval

====
